---- MODULE Spec2Model ----
\* A model of src/ui/content.rs: the frame compositor (render_content), the
\* listing renderer (render_table) and the diagnostics renderer
\* (render_debug_panel) of the wiper terminal disk browser.
\*
\* Rust Strings are modelled as sequences of UTF-8 bytes (integers 0..255), so
\* that String::len, byte-indexed slicing and char boundaries are what they
\* are in the program.  Option<T> is modelled as a sequence of length 0 (None)
\* or 1 (Some).  A widget handed to ratatui is modelled as the record of the
\* settings the code gives it; the drawing surface holds, per region, the
\* widget that was rendered into it.
EXTENDS Integers, Sequences, FiniteSets, TLC

\* ---------------------------------------------------------------- bounds
MaxLen == 42          \* characters in a generated log text
MaxWide == 2          \* length of the run of two-byte characters in a text
MaxTicks == 3         \* the wall clock reads at most MaxTicks * ClockStep ms
ClockStep == 50       \* granularity of the modelled clock, in milliseconds
MaxTs == 1            \* message timestamps are 0 .. MaxTs * ClockStep
MaxMsgs == 2          \* messages in the log buffer (frame specification)
MaxFrameMsgs == 1     \* messages in the log buffer (two-frame specification)
MaxFrames == 2        \* frames rendered in the two-frame specification
MaxEntries == 2       \* entries of a listing
MaxTimeTaken == 11    \* largest debug_data.time_taken
MaxFolders == 2       \* largest debug_data.folders

\* ------------------------------------------------------- program constants
MAX_LOG_LEN == 40

VARIABLES
    folder,           \* maybe_folder: Option<&Folder>
    config,           \* &UIConfig
    logger,           \* &Logger
    debug_data,       \* &DebugData
    overflow_checks,  \* build profile: are integer overflow checks compiled in
    buf,              \* the drawing surface
    pc,               \* "idle", "logs" (inside the map closure loop), "done", "panicked"
    logs,             \* the Vec<ListItem> being collected
    panic,            \* the panic message once pc = "panicked"
    calls,            \* the renderers invoked in the current frame
    reads,            \* the wall-clock readings taken in the current frame
    frame,            \* number of the frame being rendered
    prev              \* the previous frame's surface and clock readings, if any

vars == <<folder, config, logger, debug_data, overflow_checks, buf, pc, logs,
          panic, calls, reads, frame, prev>>

\* ------------------------------------------------------------ byte strings
\* String literals of the source, as UTF-8 bytes.
LitFolders == <<70, 111, 108, 100, 101, 114, 115, 58, 32>>                  \* "Folders: "
LitDoneIn == <<10, 68, 111, 110, 101, 32, 105, 110, 58, 32>>               \* "\nDone in: "
LitFps == <<10, 70, 80, 83, 58, 32>>                                        \* "\nFPS: "
LitSkipped == <<32, 124, 32, 83, 107, 105, 112, 112, 101, 100, 58, 32>>     \* " | Skipped: "
LitPlaceholder == <<46, 46, 46>>                                            \* "..."
LitEllipsis == <<46, 46>>                                                   \* ".."
LitOpen == <<91>>                                                           \* "["
LitCloseDash == <<93, 32, 45, 32>>                                          \* "] - "
LitEmpty == <<>>                                                            \* ""
LitName == <<78, 97, 109, 101>>                                             \* "Name"
LitSize == <<83, 105, 122, 101>>                                            \* "Size"
LitSpace == <<83, 112, 97, 99, 101>>                                        \* "Space"
LitArrow == <<32, 226, 134, 147>>                                           \* " ↓"

\* u128::to_string / usize Display: the decimal digits of n.
RECURSIVE to_string(_)
to_string(n) ==
    IF n < 10 THEN <<48 + n>> ELSE to_string(n \div 10) \o <<48 + (n % 10)>>

\* str::is_char_boundary(index), index a 0-based byte offset.
is_char_boundary(s, index) ==
    \/ index = 0
    \/ index = Len(s)
    \/ /\ index < Len(s)
       /\ ~(s[index + 1] >= 128 /\ s[index + 1] < 192)

\* &s[from..to]: the bytes at offsets from .. to-1.
Slice(s, from, to) == SubSeq(s, from + 1, to)

\* Does &s[from..to] panic?  (str indexing: range order, length, boundaries)
SlicePanics(s, from, to) ==
    \/ from > to
    \/ to > Len(s)
    \/ ~is_char_boundary(s, from)
    \/ ~is_char_boundary(s, to)

\* ------------------------------------------------------------- f64 format
\* elapsed_ms as f64 / 1000.0, formatted with {:.1}.  The quotient is the
\* IEEE-754 double nearest to ms/1000; the formatter rounds the exact value
\* of that double to one decimal, ties to even.  Only for ms % 100 = 50 can
\* the rounding error of the division decide the digit, so the division is
\* carried out bit by bit to find the sign of that error.
RECURSIVE Normalise(_, _)
Normalise(n, d) ==
    IF n < d THEN Normalise(2 * n, d)
    ELSE IF n >= 2 * d THEN Normalise(n, 2 * d)
    ELSE <<n, d>>

RECURSIVE DivBits(_, _, _, _)
DivBits(r, d, n, last) ==
    IF n = 0 THEN [last |-> last, r |-> r]
    ELSE IF 2 * r >= d THEN DivBits(2 * r - d, d, n - 1, 1)
    ELSE DivBits(2 * r, d, n - 1, 0)

\* The sign of (double nearest to ms/1000) - ms/1000: 53 significant bits,
\* round to nearest, ties to even.
F64DivError(ms) ==
    IF ms = 0 THEN 0
    ELSE LET nd == Normalise(ms, 1000)
             q == DivBits(nd[1] - nd[2], nd[2], 52, 1)
         IN  IF q.r = 0 THEN 0
             ELSE IF 2 * q.r < nd[2] THEN -1
             ELSE IF 2 * q.r > nd[2] THEN 1
             ELSE IF q.last = 1 THEN 1 ELSE -1

\* The number of tenths of a second printed for ms milliseconds.
Tenths(ms) ==
    LET q == ms \div 100
        rem == ms % 100
        err == F64DivError(ms)
    IN  IF rem < 50 THEN q
        ELSE IF rem > 50 THEN q + 1
        ELSE IF err > 0 THEN q + 1
        ELSE IF err < 0 THEN q
        ELSE IF q % 2 = 0 THEN q ELSE q + 1

\* (2^128 - d) as f64 / 1000.0 with {:.1}, for every d below 2^74: the u128
\* rounds to 2^128 as a double, and the quotient prints as
\* "340282366920938470546924331736236032.0".
LitWrapped ==
    <<51, 52, 48, 50, 56, 50, 51, 54, 54, 57, 50, 48, 57, 51, 56, 52, 55, 48,
      53, 52, 54, 57, 50, 52, 51, 51, 49, 55, 51, 54, 50, 51, 54, 48, 51, 50,
      46, 48>>

\* format!("{:.1}", elapsed_ms as f64 / 1000.0)
format_secs(elapsed) ==
    IF elapsed.wrapped THEN LitWrapped
    ELSE to_string(Tenths(elapsed.ms) \div 10) \o <<46>>
            \o <<48 + (Tenths(elapsed.ms) % 10)>>

\* ------------------------------------------------------------ input domains
None == <<>>
Some(x) == <<x>>

\* The wall clock, in milliseconds relative to UNIX_EPOCH; a negative reading
\* is a system time earlier than the epoch.
Clock == { k * ClockStep : k \in -1 .. MaxTicks }

\* Log texts: n characters, the k-th an ASCII character unless it lies in a
\* run of w two-byte characters starting at character p.
CharBytes(k, wide) == IF wide THEN <<195, 128 + k>> ELSE <<32 + k>>

RECURSIVE MkText(_, _, _, _)
MkText(k, n, p, w) ==
    IF k > n THEN <<>>
    ELSE CharBytes(k, k >= p /\ k < p + w) \o MkText(k + 1, n, p, w)

Texts == { MkText(1, n, p, w) : n \in 0 .. MaxLen, p \in 1 .. MaxLen, w \in 0 .. MaxWide }

ShortText == MkText(1, 3, 1, 0)
LongText == MkText(1, MAX_LOG_LEN + 1, 1, 0)

Levels == {"Info", "Error"}
Timestamps == { k * ClockStep : k \in 0 .. MaxTs }

\* (timestamp, level, message)
Message(ts, level, text) == [timestamp |-> ts, level |-> level, message |-> text]

RichMessages == { Message(ts, l, t) : ts \in Timestamps, l \in Levels, t \in Texts }
PlainMessages == { Message(0, "Info", ShortText), Message(ClockStep, "Error", LongText) }

SeqsUpTo(S, n) == UNION { [1 .. k -> S] : k \in 0 .. n }

Configs ==
    [sort_by : {"Title", "Size"}, debug_enabled : BOOLEAN, confirming_deletion : BOOLEAN]

\* A listing: its entries in the scanning collaborator's order, and the cursor.
Folders ==
    { [entries |-> [i \in 1 .. n |-> i], cursor_index |-> c] :
        n \in 0 .. MaxEntries, c \in 0 .. MaxEntries + 1 }

Fps == { <<54, 48>>, <<53, 57, 46, 57>> }      \* "60", "59.9"
Skipped == { <<48>>, <<51>> }                  \* "0", "3"
SpinSymbol == <<124, 47>>                      \* ('|', '/')

DebugDatas ==
    [time_taken : {None} \cup { Some(t) : t \in 0 .. MaxTimeTaken },
     fps : Fps, skipped_frames : Skipped, folders : 0 .. MaxFolders,
     spin_symbol : {SpinSymbol}]

PlainDebugData ==
    [time_taken |-> None, fps |-> <<54, 48>>, skipped_frames |-> <<48>>,
     folders |-> 0, spin_symbol |-> SpinSymbol]

\* ------------------------------------------------------------- render_table
\* selected_style with the two backgrounds exchanged.
selected_style_swapped(cfg) ==
    IF cfg.confirming_deletion THEN [bg |-> "TEXT_SELECTED_BG"]
    ELSE [bg |-> "TEXT_PRE_DELETED_BG"]

selected_style(cfg) ==
    IF cfg.confirming_deletion THEN [bg |-> "TEXT_PRE_DELETED_BG"]
    ELSE [bg |-> "TEXT_SELECTED_BG"]

\* header_titles with the match on sort_by lost: the arrow stays on Name.
header_titles_name_only(cfg) ==
    <<LitEmpty, LitName \o LitArrow, LitSize, LitSpace>>

header_titles(cfg) ==
    IF cfg.sort_by = "Title"
    THEN <<LitEmpty, LitName \o LitArrow, LitSize, LitSpace>>
    ELSE <<LitEmpty, LitName, LitSize \o LitArrow, LitSpace>>

\* crate::ui::utils::folder_to_rows: one row per entry, in listing order; the
\* cells are the collaborator's pre-formatted strings for that entry.
folder_to_rows(f, cfg, loading_indicator) ==
    [i \in 1 .. Len(f.entries) |->
        [entry |-> f.entries[i], loading_indicator |-> loading_indicator]]

\* The Table widget and TableState that render_table hands to
\* StatefulWidget::render.
render_table(f, cfg, loading_indicator) ==
    [block |-> [borders |-> "ALL", padding |-> "horizontal(1)",
                border_set |-> "PROPORTIONAL_TALL", fg |-> "TEXT_COLOR",
                bg |-> "NORMAL_ROW_COLOR"],
     header |-> [cells |-> header_titles(cfg),
                 style |-> [fg |-> "TABLE_HEADER_FG", bg |-> "TABLE_HEADER_BG"],
                 height |-> 1],
     rows |-> folder_to_rows(f, cfg, loading_indicator),
     widths |-> <<"Length(1)", "Length(40)", "Length(20)", "Length(TABLE_SPACE_WIDTH)">>,
     highlight_symbol |-> <<62, 32>>,
     highlight_style |-> selected_style(cfg),
     highlight_spacing |-> "Always",
     selected |-> Some(f.cursor_index)]

\* ------------------------------------------------------- render_debug_panel
\* time_taken with unwrap_or_default in place of the "..." placeholder.
time_taken_zero_default(dd) ==
    IF dd.time_taken = None THEN to_string(0) ELSE to_string(dd.time_taken[1])

time_taken(dd) ==
    IF dd.time_taken = None THEN LitPlaceholder ELSE to_string(dd.time_taken[1])

stats_text(dd) ==
    LitFolders \o to_string(dd.folders) \o LitDoneIn \o time_taken(dd)
        \o LitFps \o dd.fps \o LitSkipped \o dd.skipped_frames

\* The Paragraph rendered into the top area.
stats(dd) ==
    [text |-> stats_text(dd), alignment |-> "Left",
     block |-> [title |-> " Stats ", title_alignment |-> "Center",
                borders |-> "ALL", padding |-> "horizontal(1)",
                border_set |-> "PROPORTIONAL_TALL"]]

\* items with a title that depends on a frame counter kept between calls.
items_frame_counter(ls) ==
    [items |-> ls,
     block |-> [title |-> IF frame % 2 = 0 THEN " Logs " ELSE " Logs. ",
                title_alignment |-> "Center",
                borders |-> "ALL", padding |-> "horizontal(1)",
                border_set |-> "PROPORTIONAL_TALL"]]

\* The List rendered into the bottom area.
items(ls) ==
    [items |-> ls,
     block |-> [title |-> " Logs ", title_alignment |-> "Center",
                borders |-> "ALL", padding |-> "horizontal(1)",
                border_set |-> "PROPORTIONAL_TALL"]]

\* current_timestamp_ms - timestamp on u128.  With overflow checks the
\* subtraction panics when it would go below zero; without them it wraps to
\* 2^128 - (timestamp - current_timestamp_ms), kept as its deficit.
elapsed_ms(current_timestamp_ms, timestamp) ==
    IF current_timestamp_ms >= timestamp
    THEN [panics |-> FALSE, wrapped |-> FALSE, ms |-> current_timestamp_ms - timestamp]
    ELSE [panics |-> overflow_checks, wrapped |-> TRUE,
          ms |-> timestamp - current_timestamp_ms]

head_end == MAX_LOG_LEN \div 4
tail_len == (MAX_LOG_LEN \div 4) * 3

\* truncate with the comparison off by one (>= for >).
truncate_inclusive(message) ==
    IF Len(message) >= MAX_LOG_LEN
    THEN IF \/ SlicePanics(message, 0, head_end)
            \/ SlicePanics(message, Len(message) - tail_len, Len(message))
         THEN [panics |-> TRUE, message |-> message]
         ELSE [panics |-> FALSE,
               message |-> Slice(message, 0, head_end) \o LitEllipsis
                             \o Slice(message, Len(message) - tail_len, Len(message))]
    ELSE [panics |-> FALSE, message |-> message]

\* The truncation of lines 151-157.
truncate(message) ==
    IF Len(message) > MAX_LOG_LEN
    THEN IF \/ SlicePanics(message, 0, head_end)
            \/ SlicePanics(message, Len(message) - tail_len, Len(message))
         THEN [panics |-> TRUE, message |-> message]
         ELSE [panics |-> FALSE,
               message |-> Slice(message, 0, head_end) \o LitEllipsis
                             \o Slice(message, Len(message) - tail_len, Len(message))]
    ELSE [panics |-> FALSE, message |-> message]

level_style(level) ==
    IF level = "Info" THEN [fg |-> "TEXT_COLOR"] ELSE [fg |-> "TEXT_PRE_DELETED_BG"]

NoItem == [content |-> <<>>, style |-> [fg |-> ""]]

\* The closure mapped over logger.messages, for one message and one reading
\* of SystemTime::now(): the ListItem, or the panic that ends the render.
map_closure(m, now) ==
    IF now < 0
    THEN [panic |-> "Time went backwards", item |-> NoItem]
    ELSE LET e == elapsed_ms(now, m.timestamp)
             t == truncate(m.message)
         IN  IF e.panics
             THEN [panic |-> "attempt to subtract with overflow", item |-> NoItem]
             ELSE IF t.panics
             THEN [panic |-> "byte index is not a char boundary", item |-> NoItem]
             ELSE [panic |-> "",
                   item |-> [content |-> LitOpen \o format_secs(e) \o LitCloseDash
                                           \o t.message,
                             style |-> level_style(m.level)]]

\* ------------------------------------------------------------------ state
Blank == [content_col |-> <<>>, top |-> <<>>, bottom |-> <<>>]

InitWith(Fs, Cs, Ls, Ds) ==
    /\ folder \in Fs
    /\ config \in Cs
    /\ logger \in Ls
    /\ debug_data \in Ds
    /\ overflow_checks \in BOOLEAN
    /\ buf = Blank
    /\ pc = "idle"
    /\ logs = <<>>
    /\ panic = ""
    /\ calls = {}
    /\ reads = <<>>
    /\ frame = 1
    /\ prev = None

Inputs == <<folder, config, logger, debug_data, overflow_checks>>

\* render_debug_panel up to the point where the closure first runs: the stats
\* are rendered into the top area; with no message the empty list is rendered
\* at once.
DebugPanelFrom(b) ==
    /\ logs' = <<>>
    /\ IF logger.messages = <<>>
       THEN /\ buf' = [b EXCEPT !.top = Some(stats(debug_data)),
                                !.bottom = Some(items(<<>>))]
            /\ pc' = "done"
       ELSE /\ buf' = [b EXCEPT !.top = Some(stats(debug_data))]
            /\ pc' = "logs"

\* The surface after the listing renderer has run on the content column.
TableInto(b) ==
    [b EXCEPT !.content_col =
        Some(render_table(folder[1], config, debug_data.spin_symbol[1]))]

\* render_content with the diagnostics renderer invoked whatever
\* config.debug_enabled says.
RenderContentAlwaysDebug(b) ==
    /\ pc = "idle"
    /\ calls' = (IF folder # None THEN {"render_table"} ELSE {})
                  \cup {"render_debug_panel"}
    /\ reads' = <<>>
    /\ DebugPanelFrom(IF folder # None THEN TableInto(b) ELSE b)
    /\ UNCHANGED <<Inputs, panic>>

\* render_content, lines 25-47.
RenderContentFrom(b) ==
    /\ pc = "idle"
    /\ calls' = (IF folder # None THEN {"render_table"} ELSE {})
                  \cup (IF config.debug_enabled THEN {"render_debug_panel"} ELSE {})
    /\ reads' = <<>>
    /\ LET b1 == IF folder # None THEN TableInto(b) ELSE b
       IN  IF config.debug_enabled
           THEN DebugPanelFrom(b1)
           ELSE buf' = b1 /\ pc' = "done" /\ logs' = <<>>
    /\ UNCHANGED <<Inputs, panic>>

RenderContent ==
    /\ frame = 1
    /\ prev = None
    /\ RenderContentFrom(buf)
    /\ UNCHANGED <<frame, prev>>

\* The caller's next frame: render_content again on a fresh surface with the
\* same snapshot.
NextFrame ==
    /\ pc = "done"
    /\ frame < MaxFrames
    /\ frame' = frame + 1
    /\ prev' = Some([buf |-> buf, reads |-> reads])
    /\ calls' = (IF folder # None THEN {"render_table"} ELSE {})
                  \cup (IF config.debug_enabled THEN {"render_debug_panel"} ELSE {})
    /\ reads' = <<>>
    /\ LET b1 == IF folder # None THEN TableInto(Blank) ELSE Blank
       IN  IF config.debug_enabled
           THEN DebugPanelFrom(b1)
           ELSE buf' = b1 /\ pc' = "done" /\ logs' = <<>>
    /\ UNCHANGED <<Inputs, panic>>

\* render_table called on its own, lines 49-105.
RenderTable ==
    /\ pc = "idle"
    /\ folder # None
    /\ buf' = TableInto(buf)
    /\ calls' = {"render_table"}
    /\ pc' = "done"
    /\ UNCHANGED <<Inputs, logs, panic, reads, frame, prev>>

\* render_debug_panel called on its own, lines 107-171.
RenderDebugPanel ==
    /\ pc = "idle"
    /\ calls' = {"render_debug_panel"}
    /\ DebugPanelFrom(buf)
    /\ UNCHANGED <<Inputs, panic, reads, frame, prev>>

\* One run of the closure of lines 144-166 on the next message, with the
\* clock reading it takes; after the last message the collected list is
\* rendered into the bottom area (lines 169-170).
LogStep ==
    /\ pc = "logs"
    /\ \E now \in Clock :
         LET m == logger.messages[Len(logs) + 1]
             r == map_closure(m, now)
         IN  /\ reads' = Append(reads, now)
             /\ IF r.panic # ""
                THEN /\ pc' = "panicked"
                     /\ panic' = r.panic
                     /\ UNCHANGED <<logs, buf>>
                ELSE /\ logs' = Append(logs, r.item)
                     /\ panic' = panic
                     /\ IF Len(logs) + 1 = Len(logger.messages)
                        THEN /\ buf' = [buf EXCEPT !.bottom = Some(items(logs'))]
                             /\ pc' = "done"
                        ELSE /\ buf' = buf
                             /\ pc' = "logs"
    /\ UNCHANGED <<Inputs, calls, frame, prev>>

\* --------------------------------------------------------- specifications
\* One frame through render_content.
Init ==
    InitWith({None} \cup { Some(f) : f \in { g \in Folders : Len(g.entries) = 1 } },
             Configs,
             { [messages |-> s] : s \in SeqsUpTo(PlainMessages, MaxMsgs) },
             {PlainDebugData})

Next == RenderContent \/ LogStep

Spec == Init /\ [][Next]_vars

\* Successive frames of the same snapshot.
InitFrames ==
    InitWith({None, Some([entries |-> <<1>>, cursor_index |-> 0])},
             Configs,
             { [messages |-> s] : s \in SeqsUpTo(PlainMessages, MaxFrameMsgs) },
             {PlainDebugData})

NextFrames == RenderContent \/ LogStep \/ NextFrame

SpecFrames == InitFrames /\ [][NextFrames]_vars

\* render_debug_panel on one message of any generated text.
InitLog ==
    InitWith({None},
             {[sort_by |-> "Title", debug_enabled |-> TRUE, confirming_deletion |-> FALSE]},
             { [messages |-> <<m>>] : m \in RichMessages },
             {PlainDebugData})

NextLog == RenderDebugPanel \/ LogStep

SpecLog == InitLog /\ [][NextLog]_vars

\* render_debug_panel on an empty log buffer, any debug snapshot.
InitStats ==
    InitWith({None},
             {[sort_by |-> "Title", debug_enabled |-> TRUE, confirming_deletion |-> FALSE]},
             {[messages |-> <<>>]},
             DebugDatas)

NextStats == RenderDebugPanel

SpecStats == InitStats /\ [][NextStats]_vars

\* render_table on any listing and configuration.
InitTable ==
    InitWith({ Some(f) : f \in Folders }, Configs, {[messages |-> <<>>]}, {PlainDebugData})

NextTable == RenderTable

SpecTable == InitTable /\ [][NextTable]_vars

\* ------------------------------------------------- reading a rendered text
\* The offsets (1-based) at which a character of the UTF-8 text s starts.
CharStarts(s) ==
    SelectSeq([i \in 1 .. Len(s) |-> i], LAMBDA i : ~(s[i] >= 128 /\ s[i] < 192))

CharCount(s) == Len(CharStarts(s))

\* The first n characters of s, and the last n.
FirstChars(s, n) ==
    LET st == CharStarts(s)
    IN  IF Len(st) <= n THEN s ELSE SubSeq(s, 1, st[n + 1] - 1)

LastChars(s, n) ==
    LET st == CharStarts(s)
    IN  IF Len(st) <= n THEN s ELSE SubSeq(s, st[Len(st) - n + 1], Len(s))

\* A rendered log line is "[" label "] - " message: the label ends at the
\* first "]".
HasClose(line) == \E i \in 1 .. Len(line) : line[i] = 93

CloseAt(line) ==
    CHOOSE i \in 1 .. Len(line) : line[i] = 93 /\ \A j \in 1 .. i - 1 : line[j] # 93

WellFormedLine(line) ==
    /\ Len(line) >= 5
    /\ line[1] = 91
    /\ HasClose(line)
    /\ CloseAt(line) + 3 <= Len(line)
    /\ SubSeq(line, CloseAt(line), CloseAt(line) + 3) = LitCloseDash

LabelOf(line) == SubSeq(line, 2, CloseAt(line) - 1)
MessagePartOf(line) == SubSeq(line, CloseAt(line) + 4, Len(line))

IsDigits(s) == Len(s) >= 1 /\ \A i \in 1 .. Len(s) : s[i] >= 48 /\ s[i] <= 57

\* A decimal numeral with exactly one digit after the point.
IsOneDecimal(l) ==
    /\ Len(l) >= 3
    /\ l[Len(l) - 1] = 46
    /\ IsDigits(SubSeq(l, 1, Len(l) - 2))
    /\ IsDigits(<<l[Len(l)]>>)

RECURSIVE ParseNat(_)
ParseNat(s) ==
    IF s = <<>> THEN 0 ELSE 10 * ParseNat(SubSeq(s, 1, Len(s) - 1)) + (s[Len(s)] - 48)

\* The value of a one-decimal numeral, in tenths.
ParseTenths(l) == 10 * ParseNat(SubSeq(l, 1, Len(l) - 2)) + (l[Len(l)] - 48)

RECURSIVE SplitLines(_)
SplitLines(s) ==
    IF \E i \in 1 .. Len(s) : s[i] = 10
    THEN LET i == CHOOSE k \in 1 .. Len(s) : s[k] = 10 /\ \A j \in 1 .. k - 1 : s[j] # 10
         IN  <<SubSeq(s, 1, i - 1)>> \o SplitLines(SubSeq(s, i + 1, Len(s)))
    ELSE <<s>>

StartsWith(s, prefix) == Len(s) >= Len(prefix) /\ SubSeq(s, 1, Len(prefix)) = prefix
After(s, prefix) == SubSeq(s, Len(prefix) + 1, Len(s))

HasArrow(label) ==
    Len(label) >= Len(LitArrow)
        /\ SubSeq(label, Len(label) - Len(LitArrow) + 1, Len(label)) = LitArrow

StripArrow(label) ==
    IF HasArrow(label) THEN SubSeq(label, 1, Len(label) - Len(LitArrow)) ELSE label

Abs(x) == IF x < 0 THEN -x ELSE x

\* The single message of the log specification, and its rendered line.
TheMessage == logger.messages[1]
TheLine == logs[1].content

\* ------------------------------------------------------------------ claims

\* C1: in render_debug_panel, for every log message longer than 40, the
\* message part of the rendered line (the text after "[<seconds>] - ") is the
\* first 10 characters of the original text, "..", and its last 30
\* characters.  (As claimed; the byte-indexed slices of lines 154-155 break
\* it.)
C1_HeadAndTailCharacters ==
    CharCount(TheMessage.message) > 40 =>
        /\ panic # "byte index is not a char boundary"
        /\ pc = "done" =>
              /\ WellFormedLine(TheLine)
              /\ MessagePartOf(TheLine) =
                    FirstChars(TheMessage.message, 10) \o LitEllipsis
                        \o LastChars(TheMessage.message, 30)

HeaderCells == buf.content_col[1].header.cells

\* C3: in render_table, for every sort mode the header is the four labels
\* marker, Name, Size, Space in that order, and exactly one of Name and Size
\* carries a trailing down-arrow: Name when sort_by is Title, Size when it is
\* Size; the marker and Space labels never carry it.
C3_HeaderArrow ==
    (pc = "done" /\ buf.content_col # None) =>
        /\ Len(HeaderCells) = 4
        /\ [i \in 1 .. 4 |-> StripArrow(HeaderCells[i])]
              = <<LitEmpty, LitName, LitSize, LitSpace>>
        /\ HasArrow(HeaderCells[2]) <=> config.sort_by = "Title"
        /\ HasArrow(HeaderCells[3]) <=> config.sort_by = "Size"
        /\ ~HasArrow(HeaderCells[1])
        /\ ~HasArrow(HeaderCells[4])
        /\ Cardinality({ i \in 1 .. 4 : HasArrow(HeaderCells[i]) }) = 1

C3_Witness ==
    /\ pc = "done"
    /\ buf.content_col # None
    /\ config.sort_by = "Size"
    /\ HasArrow(HeaderCells[3])
    /\ ~HasArrow(HeaderCells[2])

\* C4: render_debug_panel never aborts the render pass because the clock
\* cannot be read: when a reading is earlier than the epoch a fallback
\* elapsed value is used and every message is still rendered.  (As claimed;
\* the expect of line 148 breaks it.)
C4_ClockFailureTolerated ==
    (\E i \in 1 .. Len(reads) : reads[i] < 0) =>
        /\ pc # "panicked"
        /\ pc = "done" => Len(buf.bottom[1].items) = Len(logger.messages)

\* C6: render_content invokes the listing renderer exactly when a listing is
\* present and the diagnostics renderer exactly when config.debug_enabled;
\* with no listing the content region is left unchanged, and with no listing
\* and debug disabled the whole surface is left unchanged.
C6_Dispatch ==
    pc # "idle" =>
        /\ "render_table" \in calls <=> folder # None
        /\ "render_debug_panel" \in calls <=> config.debug_enabled
        /\ buf.content_col # Blank.content_col <=> folder # None
        /\ buf.top # Blank.top <=> config.debug_enabled
        /\ ~config.debug_enabled => buf.bottom = Blank.bottom
        /\ folder = None => buf.content_col = Blank.content_col
        /\ (folder = None /\ ~config.debug_enabled) => buf = Blank

C6_Witness ==
    /\ pc = "done"
    /\ folder = None
    /\ config.debug_enabled
    /\ buf.content_col = Blank.content_col
    /\ buf.top # Blank.top
    /\ calls = {"render_debug_panel"}

\* The table render_table produces from the same inputs with
\* config.confirming_deletion toggled.
ToggledTable ==
    render_table(folder[1],
                 [config EXCEPT !.confirming_deletion = ~config.confirming_deletion],
                 debug_data.spin_symbol[1])

WithoutHighlightStyle(t) == [t EXCEPT !.highlight_style = [bg |-> ""]]

C8_PureOfSnapshot ==
    (prev # None /\ pc = "done") => buf = prev[1].buf

\* C8 as amended: two render_content calls given the same surface, listing,
\* config, log buffer and debug snapshot, and for which SystemTime::now()
\* gives the same readings, produce identical cells; nothing else is read and
\* no state is carried from one frame to the next.
C8_PureOfSnapshotAndClock ==
    (prev # None /\ pc \in {"done", "panicked"} /\ reads = prev[1].reads) =>
        pc = "done" /\ buf = prev[1].buf

C8_Witness ==
    /\ prev # None
    /\ pc = "done"
    /\ Len(reads) >= 1
    /\ reads = prev[1].reads
    /\ buf = prev[1].buf
    /\ buf.bottom # None

\* The lines of the stats text rendered into the top area.
StatsLines == SplitLines(buf.top[1].text)

\* C9 as claimed: the stats text shows entry count, elapsed time, fps string
\* and skipped-frame string each on its own line, in this order.
C9_FourLines ==
    (pc = "done" /\ buf.top # None) =>
        /\ Len(StatsLines) = 4
        /\ StatsLines[1] = LitFolders \o to_string(debug_data.folders)
        /\ StartsWith(StatsLines[2], Tail(LitDoneIn))
        /\ After(StatsLines[3], SubSeq(StatsLines[3], 1,
                    Len(StatsLines[3]) - Len(debug_data.fps))) = debug_data.fps
        /\ After(StatsLines[4], SubSeq(StatsLines[4], 1,
                    Len(StatsLines[4]) - Len(debug_data.skipped_frames)))
              = debug_data.skipped_frames

\* C9 as amended: the stats text is three lines: "Folders: " and the entry
\* count; "Done in: " and the measured duration when time_taken is present,
\* the literal "..." when it is absent; "FPS: ", the fps string, " | Skipped: "
\* and the skipped-frame string, both on the third line.
C9_ThreeLines ==
    (pc = "done" /\ buf.top # None) =>
        /\ Len(StatsLines) = 3
        /\ StartsWith(StatsLines[1], LitFolders)
        /\ IsDigits(After(StatsLines[1], LitFolders))
        /\ ParseNat(After(StatsLines[1], LitFolders)) = debug_data.folders
        /\ StartsWith(StatsLines[2], Tail(LitDoneIn))
        /\ IF debug_data.time_taken = None
           THEN After(StatsLines[2], Tail(LitDoneIn)) = LitPlaceholder
           ELSE /\ IsDigits(After(StatsLines[2], Tail(LitDoneIn)))
                /\ ParseNat(After(StatsLines[2], Tail(LitDoneIn)))
                      = debug_data.time_taken[1]
        /\ StatsLines[3] = Tail(LitFps) \o debug_data.fps \o LitSkipped
                              \o debug_data.skipped_frames

C9_Witness ==
    /\ pc = "done"
    /\ buf.top # None
    /\ debug_data.time_taken = None
    /\ debug_data.folders = 2
    /\ After(StatsLines[2], Tail(LitDoneIn)) = LitPlaceholder

\* C10: for every log message and every clock reading, also one earlier than
\* the message's timestamp, the elapsed value is the reading minus the
\* timestamp, computed without overflow or wrap-around, and the label shows
\* it divided by 1000 to one decimal place.  (As claimed; the u128
\* subtraction of line 150 breaks it.)
C10_ElapsedNeverOverflows ==
    (Len(reads) >= 1 /\ reads[1] >= 0) =>
        /\ panic # "attempt to subtract with overflow"
        /\ pc = "done" =>
              /\ LabelOf(TheLine) # LitWrapped
              /\ Abs(100 * ParseTenths(LabelOf(TheLine))
                       - (reads[1] - TheMessage.timestamp)) <= 50
====
